---- MODULE Spec2Model ----
(***************************************************************************)
(* A model of compressor.py: the batch driver (main), the per-file         *)
(* orchestrator (compress_single_pdf), the raster rebuild                  *)
(* (compress_pdf_pymupdf) and the structural fallback                      *)
(* (compress_pdf_pypdf2).                                                   *)
(*                                                                         *)
(* The program is sequential; pc is the position of its single thread.     *)
(* Spec is a run of main, SpecSingle a call of compress_single_pdf with    *)
(* any compression method, SpecPymupdf a call of compress_pdf_pymupdf with *)
(* any quality and dpi.                                                    *)
(* The PDF and image libraries are the environment: what they return or    *)
(* raise is drawn with \E at the step that calls them.  The file system is *)
(* state (fs_in, fs_out); another process may remove a file between two    *)
(* steps of the program (FileVanishes).                                    *)
(*                                                                         *)
(* Sizes: get_file_size returns bytes / (1024 * 1024).  Every size of the  *)
(* model counts in that unit (1 is one MB), so the division is exact.      *)
(***************************************************************************)
EXTENDS Integers, Sequences, FiniteSets, TLC

\* ---- bounds of the model ----
MaxFiles == 2
MaxPages == 2
MaxVanish == 1

\* ---- constants of the program ----
PngThreshold == 90
BaseDpi == 72
MainQuality == 80
MainDpi == 300
DefaultQuality == 95
DefaultDpi == 150

Absent == -1
Ids == 1..MaxFiles
Methods == {"auto", "pymupdf", "pypdf2", "unknown"}
Qualities == 1..100
Dpis == {BaseDpi, DefaultDpi, MainDpi}
InSizes == {0, 2}
OutSizes == {1, 2}
Rects == {<<595, 842>>, <<842, 595>>}
Modes == {"RGB", "RGBA"}
BlockCounts == {0, 1}
Pages == [rect : Rects, blocks : BlockCounts]
Docs == UNION {[1..n -> Pages] : n \in 0..MaxPages}

VARIABLES
    marked,                   \* id -> its name ends with _compressed.pdf
    fs_in,                    \* the working directory: id -> size, or Absent
    fs_out,                   \* ./compressed_pdfs: id -> size, or Absent
    vanished,                 \* files removed by the environment so far
    entry,                    \* the function the run entered: "main",
                              \* "compress_single_pdf" or "compress_pdf_pymupdf"
    pc,                       \* position of the program
    compression_method, quality, dpi,
    pdf_files, idx,           \* main's candidate list and loop position
    successful_compressions, total_original_size, total_compressed_size,
    original_size, success,   \* locals of compress_single_pdf
    doc, new_doc, page_num,   \* locals of compress_pdf_pymupdf
    open_handles,             \* handles opened and not closed: <<id, kind>>
    trace,                    \* history: id -> the method calls made for it
    file_log                  \* history: id -> what main and the orchestrator reported

vars == <<marked, fs_in, fs_out, vanished, entry, pc, compression_method, quality, dpi,
          pdf_files, idx, successful_compressions, total_original_size,
          total_compressed_size, original_size, success, doc, new_doc,
          page_num, open_handles, trace, file_log>>

\* ---------------------------------------------------------------------
\* Pure helpers
\* ---------------------------------------------------------------------

\* get_file_size: the size in MB; the caller handles Absent (os.path.getsize raises)
get_file_size(fs, f) == fs[f]

\* Path.exists()
exists(fs, f) == fs[f] # Absent

RECURSIVE GlobFrom(_, _, _)
GlobFrom(dir, names, i) ==
    IF i > MaxFiles THEN <<>>
    ELSE IF exists(dir, i) /\ ~names[i]
         THEN <<i>> \o GlobFrom(dir, names, i + 1)
         ELSE GlobFrom(dir, names, i + 1)

\* find_pdf_files: the entries of the directory that match *.pdf and whose
\* name does not end with _compressed.pdf, in the listing's order
find_pdf_files(dir, names) == GlobFrom(dir, names, 1)

\* has_text = len(text_dict.get("blocks", [])) > 0
has_text(page) == page.blocks > 0

\* the render matrix of a page, as the fraction num/den
Matrix(page, d) ==
    IF has_text(page) THEN [num |-> d, den |-> BaseDpi]
    ELSE [num |-> 12, den |-> 10]

\* if img.mode in ('RGBA', 'LA'): img = img.convert('RGB')
Convert(mode) == IF mode \in {"RGBA", "LA"} THEN "RGB" ELSE mode

\* Encode with the page's branch forgotten: PNG for any page at high quality
EncodePngAnyPage(page, q) ==
    IF q >= PngThreshold
    THEN [format |-> "PNG", optimize |-> TRUE]
    ELSE [format |-> "JPEG", quality |-> q, optimize |-> TRUE]

\* img.save(...): the format and the parameters of the encoding
Encode(page, q) ==
    IF has_text(page) /\ q >= PngThreshold
    THEN [format |-> "PNG", optimize |-> TRUE]
    ELSE [format |-> "JPEG", quality |-> q, optimize |-> TRUE]

\* NewPage with the page inserted in front of the pages built so far
NewPageInFront(out, page, n, q, d, mode) ==
    <<[rect |-> page.rect,
       image |-> Encode(page, q),
       scale |-> Matrix(page, d),
       mode |-> Convert(mode),
       src |-> n]>> \o out

\* new_doc.new_page(width, height) and insert_image(rect, stream): the page
\* is added at the end of the output document
NewPage(out, page, n, q, d, mode) ==
    Append(out, [rect |-> page.rect,
                 image |-> Encode(page, q),
                 scale |-> Matrix(page, d),
                 mode |-> Convert(mode),
                 src |-> n])

\* line 127
TriesRebuild(m) == m = "pymupdf" \/ m = "auto"

\* TriesFallback with the auto mode forgotten
TriesFallbackOnlyPypdf2(s, m) == ~s /\ m = "pypdf2"

\* TriesFallback with the mode forgotten
TriesFallbackAnyMode(s, m) == ~s

\* line 130
TriesFallback(s, m) == ~s /\ (m = "pypdf2" \/ m = "auto")

\* CspSucceeds with the method's return value forgotten
CspSucceedsOnFileAlone(s, e) == e

\* line 134
CspSucceeds(s, e) == s /\ e

\* the return value of a method call, as the history records it
Ret(r) == IF r THEN "True" ELSE "False"

SetLast(s, r) == [s EXCEPT ![Len(s)] = [@ EXCEPT !.r = Ret(r)]]

NoLog == [iter |-> "none", result |-> "none", original |-> 0, compressed |-> 0,
          output_seen |-> FALSE]

\* ---------------------------------------------------------------------
\* Initial states
\* ---------------------------------------------------------------------

InitLocals ==
    /\ vanished = 0
    /\ successful_compressions = 0
    /\ total_original_size = 0
    /\ total_compressed_size = 0
    /\ original_size = 0
    /\ success = FALSE
    /\ doc = <<>>
    /\ new_doc = <<>>
    /\ page_num = 0
    /\ open_handles = {}

\* python compressor.py in some directory: main with the settings of lines
\* 188-190.  The size and the output of a file that is not a candidate play
\* no part and are fixed.
Init ==
    /\ marked \in [Ids -> BOOLEAN]
    /\ fs_in \in [Ids -> InSizes]
    /\ fs_out \in [Ids -> {Absent, 1}]
    /\ \A f \in Ids : marked[f] => fs_out[f] = Absent /\ fs_in[f] = 2
    /\ entry = "main"
    /\ pc = "main"
    /\ compression_method = "auto"
    /\ quality = MainQuality
    /\ dpi = MainDpi
    /\ pdf_files = <<>>
    /\ idx = 0
    /\ trace = [f \in Ids |-> <<>>]
    /\ file_log = [f \in Ids |-> NoLog]
    /\ InitLocals

\* ---------------------------------------------------------------------
\* The environment
\* ---------------------------------------------------------------------

\* Another process removes a file the program has yet to look at: a candidate
\* not yet processed, or the output of such a candidate.  (A removal before the
\* directory is listed is a directory without the file; one after the file's
\* iteration is not seen by the program.)
FileVanishes ==
    /\ vanished < MaxVanish
    /\ pc \notin {"main", "summary", "done"}
    /\ \E k \in idx..Len(pdf_files) : \E f \in {pdf_files[k]} :
        /\ \/ /\ fs_in[f] # Absent
              /\ fs_in' = [fs_in EXCEPT ![f] = Absent]
              /\ UNCHANGED fs_out
           \/ /\ fs_out[f] # Absent
              /\ fs_out' = [fs_out EXCEPT ![f] = Absent]
              /\ UNCHANGED fs_in
    /\ vanished' = vanished + 1
    /\ UNCHANGED <<marked, entry, pc, compression_method, quality, dpi, pdf_files, idx,
                   successful_compressions, total_original_size,
                   total_compressed_size, original_size, success, doc, new_doc,
                   page_num, open_handles, trace, file_log>>

\* ---------------------------------------------------------------------
\* main
\* ---------------------------------------------------------------------

fsv == <<marked, fs_in, fs_out, vanished>>
cfg == <<entry, compression_method, quality, dpi>>
totals == <<successful_compressions, total_original_size, total_compressed_size>>
csp_locals == <<original_size, success>>
rebuild_locals == <<doc, new_doc, page_num>>

\* the file of the current iteration
cur == pdf_files[idx]

\* lines 218-219: the handler of the loop body; the for loop then takes the
\* next candidate
Except(res) ==
    /\ file_log' = [file_log EXCEPT ![cur].iter = "raised", ![cur].result = res]
    /\ idx' = idx + 1
    /\ pc' = "loop"

\* lines 174-201: create the output directory, list the candidates, return
\* when there is none.  (The import test of lines 163-171 cannot fail: the
\* same imports at lines 9-12 have succeeded before main is called.)
MainStart ==
    /\ pc = "main"
    /\ pdf_files' = find_pdf_files(fs_in, marked)
    /\ IF pdf_files' = <<>>
       THEN pc' = "done" /\ idx' = idx
       ELSE pc' = "loop" /\ idx' = 1
    /\ successful_compressions' = 0
    /\ total_original_size' = 0
    /\ total_compressed_size' = 0
    /\ UNCHANGED <<fsv, cfg, csp_locals, rebuild_locals, open_handles, trace,
                   file_log>>

\* lines 204-207: the loop head and the first size lookup
MainLoop ==
    /\ pc = "loop"
    /\ IF idx > Len(pdf_files)
       THEN /\ pc' = "summary"
            /\ UNCHANGED <<idx, total_original_size, file_log>>
       ELSE IF ~exists(fs_in, cur)
       THEN /\ Except(file_log[cur].result)
            /\ UNCHANGED total_original_size
       ELSE /\ total_original_size' =
                   total_original_size + get_file_size(fs_in, cur)
            /\ file_log' = [file_log EXCEPT
                   ![cur].iter = "running",
                   ![cur].result = "running",
                   ![cur].original = get_file_size(fs_in, cur)]
            /\ pc' = "csp_start"
            /\ idx' = idx
    /\ UNCHANGED <<fsv, cfg, pdf_files, successful_compressions,
                   total_compressed_size, csp_locals, rebuild_locals,
                   open_handles, trace>>

\* lines 209-211: the orchestrator's return value and the second existence test
MainAfter ==
    /\ pc = "main_after"
    /\ pc' = IF file_log[cur].result = "success" /\ exists(fs_out, cur)
             THEN "main_size" ELSE "main_break"
    /\ UNCHANGED <<fsv, cfg, pdf_files, idx, totals, csp_locals, rebuild_locals,
                   open_handles, trace, file_log>>

\* lines 212-214: the size of the output is added to the totals
MainSize ==
    /\ pc = "main_size"
    /\ IF ~exists(fs_out, cur)
       THEN /\ Except(file_log[cur].result)
            /\ UNCHANGED totals
       ELSE /\ total_compressed_size' =
                   total_compressed_size + get_file_size(fs_out, cur)
            /\ successful_compressions' = successful_compressions + 1
            /\ file_log' = [file_log EXCEPT
                   ![cur].compressed = get_file_size(fs_out, cur)]
            /\ pc' = "main_break"
            /\ UNCHANGED <<idx, total_original_size>>
    /\ UNCHANGED <<fsv, cfg, pdf_files, csp_locals, rebuild_locals,
                   open_handles, trace>>

\* MainBreak without the break: the loop takes the next candidate
MainContinue ==
    /\ pc = "main_break"
    /\ file_log' = [file_log EXCEPT ![cur].iter = "completed"]
    /\ pc' = "loop"
    /\ idx' = idx + 1
    /\ UNCHANGED <<fsv, cfg, pdf_files, totals, csp_locals, rebuild_locals,
                   open_handles, trace>>

\* lines 216-217: the break at the end of the loop body
MainBreak ==
    /\ pc = "main_break"
    /\ file_log' = [file_log EXCEPT ![cur].iter = "completed"]
    /\ pc' = "summary"
    /\ UNCHANGED <<fsv, cfg, pdf_files, idx, totals, csp_locals, rebuild_locals,
                   open_handles, trace>>

\* lines 222-240: the report
Summary ==
    /\ pc = "summary"
    /\ pc' = "done"
    /\ UNCHANGED <<fsv, cfg, pdf_files, idx, totals, csp_locals, rebuild_locals,
                   open_handles, trace, file_log>>

\* ---------------------------------------------------------------------
\* compress_pdf_pymupdf
\* ---------------------------------------------------------------------

\* where compress_pdf_pymupdf returns to: line 130 of its caller
AfterRebuild(e) == IF e = "compress_pdf_pymupdf" THEN "done" ELSE "csp_fallback"

PymupdfReturn(r) ==
    /\ success' = r
    /\ trace' = [trace EXCEPT ![cur] = SetLast(@, r)]
    /\ pc' = AfterRebuild(entry)
    /\ doc' = <<>>
    /\ new_doc' = <<>>
    /\ page_num' = 0

\* lines 111-113: the handler prints and returns False.  It closes nothing:
\* doc and new_doc stay open unless the runtime happens to finalise them when
\* the frame is dropped, which this code does not decide.
PymupdfExcept ==
    /\ PymupdfReturn(FALSE)
    /\ \E reclaimed \in BOOLEAN :
        open_handles' = IF reclaimed
                        THEN open_handles \ {<<cur, "doc">>, <<cur, "new_doc">>}
                        ELSE open_handles

\* lines 43-48: fitz.open(input_path) raises on a missing, empty or damaged
\* file; otherwise the source document and an empty output document are open
PymupdfOpen ==
    /\ pc = "pymupdf_open"
    /\ \/ /\ PymupdfExcept
       \/ /\ exists(fs_in, cur)
          /\ get_file_size(fs_in, cur) > 0
          /\ \E d \in Docs : doc' = d
          /\ new_doc' = <<>>
          /\ page_num' = 0
          /\ open_handles' = open_handles \cup {<<cur, "doc">>, <<cur, "new_doc">>}
          /\ pc' = "pymupdf_loop"
          /\ UNCHANGED <<success, trace>>
    /\ UNCHANGED <<fsv, cfg, pdf_files, idx, totals, original_size, file_log>>

\* lines 50-103: one iteration of the page loop; rendering or encoding may raise
PymupdfPage ==
    /\ pc = "pymupdf_loop"
    /\ page_num < Len(doc)
    /\ \/ /\ PymupdfExcept
       \/ /\ \E mode \in Modes :
                new_doc' = NewPage(new_doc, doc[page_num + 1], page_num + 1,
                                   quality, dpi, mode)
          /\ page_num' = page_num + 1
          /\ UNCHANGED <<pc, doc, success, trace, open_handles>>
    /\ UNCHANGED <<fsv, cfg, pdf_files, idx, totals, original_size, file_log>>

\* line 106: new_doc.save(output_path, ...); it raises on a document without
\* pages and when the file cannot be written
PymupdfSave ==
    /\ pc = "pymupdf_loop"
    /\ page_num = Len(doc)
    /\ \/ /\ PymupdfExcept
          /\ UNCHANGED fs_out
       \/ /\ Len(new_doc) > 0
          /\ \E sz \in OutSizes : fs_out' = [fs_out EXCEPT ![cur] = sz]
          /\ pc' = "pymupdf_close"
          /\ UNCHANGED <<doc, new_doc, page_num, success, trace, open_handles>>
    /\ UNCHANGED <<marked, fs_in, vanished, cfg, pdf_files, idx, totals,
                   original_size, file_log>>

\* lines 107-110: both handles are closed and True is returned
PymupdfClose ==
    /\ pc = "pymupdf_close"
    /\ open_handles' = open_handles \ {<<cur, "doc">>, <<cur, "new_doc">>}
    /\ PymupdfReturn(TRUE)
    /\ UNCHANGED <<fsv, cfg, pdf_files, idx, totals, original_size, file_log>>

\* ---------------------------------------------------------------------
\* compress_pdf_pypdf2
\* ---------------------------------------------------------------------

\* AfterFallback with the chain tried again when the fallback failed
AfterFallbackRetry(r) == IF r THEN "csp_check" ELSE "csp_rebuild"

\* where compress_pdf_pypdf2 returns to: line 134 of its caller
AfterFallback(r) == "csp_check"

Pypdf2Return(r) ==
    /\ success' = r
    /\ trace' = [trace EXCEPT ![cur] = SetLast(@, r)]
    /\ pc' = AfterFallback(r)

\* lines 20-31: open the input and copy its pages; the with statement closes
\* input_file when the reader raises
Pypdf2Read ==
    /\ pc = "pypdf2_read"
    /\ \/ /\ Pypdf2Return(FALSE)
          /\ UNCHANGED open_handles
       \/ /\ exists(fs_in, cur)
          /\ get_file_size(fs_in, cur) > 0
          /\ open_handles' = open_handles \cup {<<cur, "input_file">>}
          /\ pc' = "pypdf2_write"
          /\ UNCHANGED <<success, trace>>
    /\ UNCHANGED <<fsv, cfg, pdf_files, idx, totals, original_size,
                   rebuild_locals, file_log>>

\* lines 33-39: open the output for writing and write it; both with
\* statements close their file on every path
Pypdf2Write ==
    /\ pc = "pypdf2_write"
    /\ open_handles' = open_handles \ {<<cur, "input_file">>}
    /\ \/ /\ Pypdf2Return(FALSE)
          /\ UNCHANGED fs_out
       \/ /\ Pypdf2Return(FALSE)
          /\ fs_out' = [fs_out EXCEPT ![cur] = 0]
       \/ /\ Pypdf2Return(TRUE)
          /\ \E sz \in OutSizes : fs_out' = [fs_out EXCEPT ![cur] = sz]
    /\ UNCHANGED <<marked, fs_in, vanished, cfg, pdf_files, idx, totals,
                   original_size, rebuild_locals, file_log>>

\* ---------------------------------------------------------------------
\* compress_single_pdf
\* ---------------------------------------------------------------------

\* where compress_single_pdf returns to: line 209 of main
AfterCsp(e) == IF e = "main" THEN "main_after" ELSE "done"

\* an exception leaves compress_single_pdf: in main it reaches the handler of
\* the loop, lines 218-219
CspRaise ==
    IF entry = "main"
    THEN Except("raised")
    ELSE /\ file_log' = [file_log EXCEPT ![cur].result = "raised"]
         /\ pc' = "done"
         /\ idx' = idx

\* lines 117-125: the size lookup raises when the file is gone
CspStart ==
    /\ pc = "csp_start"
    /\ IF ~exists(fs_in, cur)
       THEN /\ CspRaise
            /\ UNCHANGED csp_locals
       ELSE /\ original_size' = get_file_size(fs_in, cur)
            /\ success' = FALSE
            /\ pc' = "csp_rebuild"
            /\ UNCHANGED <<idx, file_log>>
    /\ UNCHANGED <<fsv, cfg, pdf_files, totals, rebuild_locals, open_handles,
                   trace>>

\* lines 127-128
CspTryRebuild ==
    /\ pc = "csp_rebuild"
    /\ IF TriesRebuild(compression_method)
       THEN /\ trace' = [trace EXCEPT
                   ![cur] = Append(@, [m |-> "pymupdf", r |-> "running"])]
            /\ pc' = "pymupdf_open"
       ELSE /\ pc' = "csp_fallback"
            /\ UNCHANGED trace
    /\ UNCHANGED <<fsv, cfg, pdf_files, idx, totals, csp_locals, rebuild_locals,
                   open_handles, file_log>>

\* lines 130-132
CspTryFallback ==
    /\ pc = "csp_fallback"
    /\ IF TriesFallback(success, compression_method)
       THEN /\ trace' = [trace EXCEPT
                   ![cur] = Append(@, [m |-> "pypdf2", r |-> "running"])]
            /\ pc' = "pypdf2_read"
       ELSE /\ pc' = "csp_check"
            /\ UNCHANGED trace
    /\ UNCHANGED <<fsv, cfg, pdf_files, idx, totals, csp_locals, rebuild_locals,
                   open_handles, file_log>>

\* lines 134 and 146-148
CspCheck ==
    /\ pc = "csp_check"
    /\ IF CspSucceeds(success, exists(fs_out, cur))
       THEN /\ pc' = "csp_size"
            /\ file_log' = [file_log EXCEPT ![cur].output_seen = exists(fs_out, cur)]
       ELSE /\ pc' = AfterCsp(entry)
            /\ file_log' = [file_log EXCEPT
                   ![cur].output_seen = exists(fs_out, cur),
                   ![cur].result = "failure"]
    /\ UNCHANGED <<fsv, cfg, pdf_files, idx, totals, csp_locals, rebuild_locals,
                   open_handles, trace>>

\* lines 135-145: the size lookup raises when the output is gone, the ratio
\* divides by original_size; otherwise True is returned
CspSize ==
    /\ pc = "csp_size"
    /\ IF ~exists(fs_out, cur) \/ original_size = 0
       THEN CspRaise
       ELSE /\ file_log' = [file_log EXCEPT ![cur].result = "success"]
            /\ pc' = AfterCsp(entry)
            /\ idx' = idx
    /\ UNCHANGED <<fsv, cfg, pdf_files, totals, csp_locals, rebuild_locals,
                   open_handles, trace>>

\* ---------------------------------------------------------------------
\* Specifications
\* ---------------------------------------------------------------------

Next ==
    \/ MainStart \/ MainLoop \/ MainAfter \/ MainSize \/ MainBreak \/ Summary
    \/ CspStart \/ CspTryRebuild \/ CspTryFallback \/ CspCheck \/ CspSize
    \/ PymupdfOpen \/ PymupdfPage \/ PymupdfSave \/ PymupdfClose
    \/ Pypdf2Read \/ Pypdf2Write
    \/ FileVanishes

Spec == Init /\ [][Next]_vars

\* compress_single_pdf(file_path, output_dir, compression_method, quality, dpi)
\* called on one file with any method
InitSingle ==
    /\ marked = [f \in Ids |-> FALSE]
    /\ fs_in \in {[f \in Ids |-> IF f = 1 THEN s ELSE Absent] : s \in InSizes}
    /\ fs_out \in {[f \in Ids |-> IF f = 1 THEN s ELSE Absent] : s \in {Absent, 1}}
    /\ entry = "compress_single_pdf"
    /\ pc = "csp_start"
    /\ compression_method \in Methods
    /\ quality \in {MainQuality, DefaultQuality}
    /\ dpi \in {DefaultDpi, MainDpi}
    /\ pdf_files = <<1>>
    /\ idx = 1
    /\ trace = [f \in Ids |-> <<>>]
    /\ file_log = [f \in Ids |-> [NoLog EXCEPT !.result =
                                      IF f = 1 THEN "running" ELSE "none"]]
    /\ InitLocals

NextSingle ==
    \/ CspStart \/ CspTryRebuild \/ CspTryFallback \/ CspCheck \/ CspSize
    \/ PymupdfOpen \/ PymupdfPage \/ PymupdfSave \/ PymupdfClose
    \/ Pypdf2Read \/ Pypdf2Write
    \/ FileVanishes

SpecSingle == InitSingle /\ [][NextSingle]_vars

\* compress_pdf_pymupdf(input_path, output_path, quality, dpi) called on one
\* file with any quality and dpi
InitPymupdf ==
    /\ marked = [f \in Ids |-> FALSE]
    /\ fs_in \in {[f \in Ids |-> IF f = 1 THEN s ELSE Absent] : s \in InSizes}
    /\ fs_out = [f \in Ids |-> Absent]
    /\ entry = "compress_pdf_pymupdf"
    /\ pc = "pymupdf_open"
    /\ compression_method = "pymupdf"
    /\ quality \in Qualities
    /\ dpi \in Dpis
    /\ pdf_files = <<1>>
    /\ idx = 1
    /\ trace = [f \in Ids |-> IF f = 1 THEN <<[m |-> "pymupdf", r |-> "running"]>>
                              ELSE <<>>]
    /\ file_log = [f \in Ids |-> NoLog]
    /\ InitLocals

NextPymupdf ==
    \/ PymupdfOpen \/ PymupdfPage \/ PymupdfSave \/ PymupdfClose
    \/ FileVanishes

SpecPymupdf == InitPymupdf /\ [][NextPymupdf]_vars

\* ---------------------------------------------------------------------
\* Properties
\* ---------------------------------------------------------------------

Candidates == {pdf_files[k] : k \in 1..Len(pdf_files)}
Returned(f) == file_log[f].result \in {"success", "failure", "raised"}
Calls(f, m) == {k \in 1..Len(trace[f]) : trace[f][k].m = m}
RebuildFailed(f) ==
    /\ Len(trace[f]) >= 1
    /\ trace[f][1] = [m |-> "pymupdf", r |-> "False"]
Succeeded == {f \in Ids : file_log[f].result = "success"}

RECURSIVE SumOriginal(_)
SumOriginal(S) ==
    IF S = {} THEN 0
    ELSE LET f == CHOOSE x \in S : TRUE
         IN file_log[f].original + SumOriginal(S \ {f})

RECURSIVE SumCompressed(_)
SumCompressed(S) ==
    IF S = {} THEN 0
    ELSE LET f == CHOOSE x \in S : TRUE
         IN file_log[f].compressed + SumCompressed(S \ {f})

\* C1 as stated: in auto mode, once the rebuild has failed for a file and
\* compress_single_pdf is over for it, the fallback was invoked for that file
\* and the reported result is the fallback's: success when it returned True,
\* failure when it returned False.
C1_ResultIsFallbackResult ==
    \A f \in Ids :
        (compression_method = "auto" /\ RebuildFailed(f) /\ Returned(f)) =>
            /\ Len(trace[f]) = 2
            /\ trace[f][2].m = "pypdf2"
            /\ (trace[f][2].r = "True" => file_log[f].result = "success")
            /\ (trace[f][2].r = "False" => file_log[f].result = "failure")

\* C1 amended: in auto mode, once the rebuild has failed for a file the
\* fallback is invoked for it; success is reported only if the fallback
\* returned True and the output file existed at the test of line 134, failure
\* is reported when the fallback returned False or the output file was
\* missing at that test, and compress_single_pdf raises instead of returning
\* only after that test has passed.
C1_FallbackAndOutputDecide ==
    \A f \in Ids :
        (compression_method = "auto" /\ RebuildFailed(f) /\ Returned(f)) =>
            /\ Len(trace[f]) = 2
            /\ trace[f][2].m = "pypdf2"
            /\ (file_log[f].result = "failure") <=>
                   ~(trace[f][2].r = "True" /\ file_log[f].output_seen)
            /\ (file_log[f].result \in {"success", "raised"}) <=>
                   (trace[f][2].r = "True" /\ file_log[f].output_seen)

C1_Witness ==
    \E f \in Ids :
        /\ compression_method = "auto"
        /\ RebuildFailed(f)
        /\ Len(trace[f]) = 2
        /\ trace[f][2] = [m |-> "pypdf2", r |-> "True"]
        /\ file_log[f].result = "success"

\* C2: a file is reported as success only if the last method attempted for it
\* returned True and its output file existed at the test of line 134; when the
\* output file is missing at that test the file is reported as failed, without
\* an exception, whatever the method returned.
C2_SuccessNeedsTrueAndOutput ==
    \A f \in Ids :
        /\ file_log[f].result = "success" =>
              /\ Len(trace[f]) >= 1
              /\ trace[f][Len(trace[f])].r = "True"
              /\ file_log[f].output_seen
        /\ (Returned(f) /\ Len(trace[f]) >= 1 /\ ~file_log[f].output_seen) =>
              file_log[f].result = "failure"
        /\ (Returned(f) /\ Len(trace[f]) >= 1 /\ trace[f][Len(trace[f])].r = "False") =>
              file_log[f].result = "failure"

C2_Witness ==
    \E f \in Ids :
        /\ Len(trace[f]) >= 1
        /\ trace[f][Len(trace[f])].r = "True"
        /\ ~file_log[f].output_seen
        /\ file_log[f].result = "failure"

\* C3 as stated: outside a compression attempt no handle opened by an attempt
\* is still open.
C3_HandlesClosedAfterAttempt ==
    pc \notin {"pymupdf_loop", "pymupdf_close", "pypdf2_write"} => open_handles = {}

\* C4 as stated: when a file was reported as failed or raised an error, the
\* loop has still handed every candidate to compress_single_pdf by the time
\* main is over.
C4_FailureDoesNotStopBatch ==
    (pc = "done" /\ \E f \in Candidates :
                        \/ file_log[f].result = "failure"
                        \/ file_log[f].iter = "raised") =>
        \A f \in Candidates : file_log[f].result # "none"

\* C5: for one file the rebuild is invoked at most once, the fallback at most
\* once, and the rebuild never after the fallback.
C5_EachMethodAtMostOnce ==
    \A f \in Ids :
        /\ Cardinality(Calls(f, "pymupdf")) <= 1
        /\ Cardinality(Calls(f, "pypdf2")) <= 1
        /\ \A j \in Calls(f, "pypdf2") : \A k \in Calls(f, "pymupdf") : k < j

C5_Witness ==
    \E f \in Ids :
        /\ Len(trace[f]) = 2
        /\ trace[f][1] = [m |-> "pymupdf", r |-> "False"]
        /\ trace[f][2] = [m |-> "pypdf2", r |-> "False"]
        /\ file_log[f].result = "failure"

\* C6 as stated: whatever the compression method, the fallback is invoked for
\* a file only after the rebuild was attempted on it and failed; in the
\* rebuild-only mode it is never invoked.
C6_FallbackOnlyAfterFailedRebuild ==
    \A f \in Ids :
        /\ Calls(f, "pypdf2") # {} => RebuildFailed(f)
        /\ compression_method = "pymupdf" => Calls(f, "pypdf2") = {}

\* C6 amended: in auto mode the fallback is invoked only after the rebuild was
\* attempted on the file and failed; in the rebuild-only mode it is never
\* invoked and a failed rebuild makes the result a failure; in the
\* fallback-only mode the fallback is invoked first, with no rebuild attempted;
\* with any other method value neither is invoked.
C6_FallbackPolicyByMode ==
    \A f \in Ids :
        /\ compression_method = "auto" =>
              (Calls(f, "pypdf2") # {} => RebuildFailed(f) /\ Calls(f, "pypdf2") = {2})
        /\ compression_method = "pymupdf" =>
              /\ Calls(f, "pypdf2") = {}
              /\ (RebuildFailed(f) /\ Returned(f)) => file_log[f].result = "failure"
        /\ compression_method = "pypdf2" =>
              /\ Calls(f, "pymupdf") = {}
              /\ Calls(f, "pypdf2") \subseteq {1}
        /\ compression_method \notin {"auto", "pymupdf", "pypdf2"} => trace[f] = <<>>

C6_Witness ==
    \E f \in Ids :
        /\ compression_method = "pymupdf"
        /\ trace[f] = <<[m |-> "pymupdf", r |-> "False"]>>
        /\ file_log[f].result = "failure"

\* C7 as stated: at the end of main's loop the two totals are the sums over
\* the files whose compression succeeded, and successful_compressions is the
\* number of those files.
C7_TotalsOverSuccesses ==
    pc \in {"summary", "done"} =>
        /\ total_original_size = SumOriginal(Succeeded)
        /\ total_compressed_size = SumCompressed(Succeeded)
        /\ successful_compressions = Cardinality(Succeeded)

\* C8: while the rebuild runs and when it has saved, the output document holds
\* one page per source page processed, the i-th built from the i-th source
\* page and sized to its rectangle; when it has saved, every source page was
\* processed.
C8_PagesFollowSource ==
    pc \in {"pymupdf_loop", "pymupdf_close"} =>
        /\ Len(new_doc) = page_num
        /\ page_num <= Len(doc)
        /\ \A i \in 1..Len(new_doc) :
              /\ new_doc[i].src = i
              /\ new_doc[i].rect = doc[i].rect
        /\ pc = "pymupdf_close" => Len(new_doc) = Len(doc)

C8_Witness ==
    /\ pc = "pymupdf_close"
    /\ Len(doc) = 2
    /\ doc[1].blocks > 0
    /\ doc[2].blocks = 0
    /\ doc[1].rect # doc[2].rect
    /\ Len(new_doc) = 2

\* C9: a page with at least one block is encoded as PNG when quality >= 90 and
\* as JPEG at the configured quality when quality < 90, at scale dpi/72; a page
\* without blocks is encoded as JPEG at the configured quality at scale 1.2.
C9_FormatAndScaleByBranch ==
    pc \in {"pymupdf_loop", "pymupdf_close"} =>
        \A i \in 1..Len(new_doc) :
            LET out == new_doc[i]
                page == doc[out.src]
            IN  IF page.blocks >= 1
                THEN /\ quality >= 90 => out.image.format = "PNG"
                     /\ quality < 90 =>
                           /\ out.image.format = "JPEG"
                           /\ out.image.quality = quality
                     /\ out.scale.num * 72 = dpi * out.scale.den
                ELSE /\ out.image.format = "JPEG"
                     /\ out.image.quality = quality
                     /\ out.scale.num * 10 = 12 * out.scale.den

C9_Witness ==
    /\ pc = "pymupdf_close"
    /\ quality >= 90
    /\ dpi # 72
    /\ \E i \in 1..Len(new_doc) :
          doc[i].blocks >= 1 /\ new_doc[i].image.format = "PNG"
    /\ \E i \in 1..Len(new_doc) :
          doc[i].blocks = 0 /\ new_doc[i].image.format = "JPEG"

\* C10 as stated: whatever happens in the first iteration, no second candidate
\* is ever reached.
C10_OnlyFirstCandidate ==
    \A k \in 2..Len(pdf_files) : file_log[pdf_files[k]].iter = "none"

\* C10 amended: the loop stops after the first iteration whose body ends
\* without raising (success or reported failure); an iteration whose body
\* raises is caught and the loop goes on to the next candidate.  So every
\* candidate before the current one raised, none after it was started, and a
\* completed one is the last one processed.
C10_StopsAfterFirstCompleted ==
    \A k \in 1..Len(pdf_files) :
        LET it == file_log[pdf_files[k]].iter
        IN  /\ k < idx => it = "raised"
            /\ k > idx => it = "none"
            /\ it = "completed" => pc \in {"summary", "done"} /\ k = idx

C10_Witness ==
    /\ Len(pdf_files) >= 2
    /\ file_log[pdf_files[1]].iter = "raised"
    /\ file_log[pdf_files[2]].iter = "completed"

====
